---- MODULE Spec2Model ----
(***************************************************************************)
(* ChimeNet MicroPython node (micropython/chime_node/main.py): the LCGP    *)
(* mode state machine, ring-request gating, chime playback, button and     *)
(* LED polling, the deferred ChillGrinding response, startup and the main  *)
(* loop.                                                                   *)
(*                                                                         *)
(* One action is one call made by main() or by ChimeNode.run(); `out` is   *)
(* the sequence of externally visible effects of the last action, in the   *)
(* order the code produces them: the message check_msg delivered, tones on *)
(* the buzzer, messages handed to the MQTT client's publish (those of the  *)
(* status timer's callback marked as such), and the failures the code logs *)
(* (a publish the client rejected is followed by its logged failure).      *)
(* `last` names the last action.  Every                                    *)
(* time.ticks_ms() reading is an input drawn from TimePoints; the counter  *)
(* is cyclic (period TicksPeriod), so any reading may follow any other.    *)
(***************************************************************************)
EXTENDS Integers, Sequences, FiniteSets, TLC

VARIABLES
    pc,                      \* position in main() / ChimeNode.run()
    exit_status,             \* process exit status (sys.exit argument)
    current_mode,            \* self.current_mode
    last_button_press,       \* self.last_button_press
    button_pressed,          \* self.button_pressed
    user_button,             \* self.user_button.value() as last read (0: pressed)
    led_state,               \* self.led_state
    last_led_toggle,         \* self.last_led_toggle
    pending_chime_id,        \* self.pending_chime_id
    chime_response_deadline, \* self.chime_response_deadline
    mqtt_client,             \* self.mqtt_client: "None", "connected", "disconnected"
    status_timer,            \* self.status_timer: "idle", "periodic", "deinit"
    status_led,              \* output level of the status LED pin
    buzzer_duty,             \* PWM duty of the buzzer
    retained_status,         \* mode named by the retained Status Message at the broker
    replaced_chime_id,       \* history: the chime_id the pending one overwrote ("": none)
    now,                     \* the last time.ticks_ms() reading
    last,                    \* name of the last action
    out                      \* effects of the last action, in order

vars == <<pc, exit_status, current_mode, last_button_press, button_pressed,
          led_state, last_led_toggle, pending_chime_id, chime_response_deadline,
          mqtt_client, status_timer, status_led, buzzer_duty, user_button,
          retained_status, replaced_chime_id, now, last, out>>

node_state == <<current_mode, last_button_press, button_pressed, led_state,
                last_led_toggle, pending_chime_id, chime_response_deadline>>

hardware == <<status_led, buzzer_duty, user_button>>

history == <<replaced_chime_id>>

-----------------------------------------------------------------------------
(* Configuration and tables                                                *)

DO_NOT_DISTURB == 0
AVAILABLE == 1
CHILL_GRINDING == 2
GRINDING == 3

Modes == {DO_NOT_DISTURB, AVAILABLE, CHILL_GRINDING, GRINDING}

NOTE_FREQUENCIES ==
    [n \in {"C4", "D4", "E4", "F4", "G4", "A4", "B4", "C5", "D5", "E5"} |->
        CASE n = "C4" -> 262
          [] n = "D4" -> 294
          [] n = "E4" -> 330
          [] n = "F4" -> 349
          [] n = "G4" -> 392
          [] n = "A4" -> 440
          [] n = "B4" -> 494
          [] n = "C5" -> 523
          [] n = "D5" -> 587
          [] n = "E5" -> 659]

DEFAULT_CHIME == << <<"C4", 300>>, <<"E4", 300>>, <<"G4", 300>>, <<"C5", 500>> >>

mode_names == <<"DoNotDisturb", "Available", "ChillGrinding", "Grinding">>

NODE_ID == "micropython_mac"

DebounceMs == 500
ResponseDelayMs == 10000
NoteMs == 300
DutyOn == 512
ModeCount == 4

-----------------------------------------------------------------------------
(* The millisecond tick counter                                            *)

\* Period of time.ticks_ms() (2^30 on the target), scaled down.
TicksPeriod == 32768

\* The tick readings the model draws from.  Pairs of them lie 250, 500 and
\* 750 ms apart (below, at and above the debounce window and the fastest
\* blink interval), 1000 and 1250 ms apart (around the Available blink
\* interval), 10000 and 10250 ms apart (at and above the response delay),
\* and one lies within the response delay of the wrap point.
TimePoints == {0, 250, 750, 1250, 2250, 10250, TicksPeriod - 250}

\* time.ticks_diff(a, b): the signed difference on the cyclic counter.
ticks_diff(a, b) ==
    ((a - b + TicksPeriod \div 2) % TicksPeriod) - TicksPeriod \div 2

\* Milliseconds that really passed from reading b to reading a, provided
\* less than one period passed.
Elapsed(a, b) == (a - b) % TicksPeriod

-----------------------------------------------------------------------------
(* Effects recorded in out                                                 *)

Tone(f, ms) == [ev |-> "tone", freq |-> f, ms |-> ms]

ResponseMsg(kind, id) ==
    [ev |-> "response", response |-> kind, node_id |-> NODE_ID,
     original_chime_id |-> id]

StatusMsg(mode) == [ev |-> "status", mode |-> mode_names[mode + 1]]

AdvertMsg(topic) == [ev |-> "advert", topic |-> topic]

Log(text) == [ev |-> "log", text |-> text]

Select(s, kind) == SelectSeq(s, LAMBDA e : e.ev = kind)

-----------------------------------------------------------------------------

Init ==
    /\ pc = "construct"
    /\ exit_status = 0
    /\ current_mode = AVAILABLE
    /\ last_button_press = 0
    /\ button_pressed = FALSE
    /\ led_state = FALSE
    /\ last_led_toggle = 0
    /\ pending_chime_id = ""
    /\ chime_response_deadline = 0
    /\ mqtt_client = "None"
    /\ status_timer = "idle"
    /\ status_led = FALSE
    /\ buzzer_duty = 0
    /\ user_button = 1
    /\ retained_status = "none"
    /\ replaced_chime_id = ""
    /\ now = 0
    /\ last = "boot"
    /\ out = <<>>

-----------------------------------------------------------------------------
(* Publishing.  The MQTT client's publish either accepts the message or    *)
(* raises; `ok` is that outcome.                                           *)

\* send_response: the publish of the Response Message, and the failure it
\* logs when the client raised.
send_response(kind, id, ok) ==
    <<ResponseMsg(kind, id)>>
    \o (IF ok THEN <<>> ELSE <<Log("Failed to send response")>>)

\* publish_status: the publish of the retained Status Message, and the
\* failure it logs when the client raised.
publish_status(mode, ok) ==
    <<StatusMsg(mode)>>
    \o (IF ok THEN <<>> ELSE <<Log("Failed to publish status")>>)

\* The callback publishing the mode the node had when the timer was set up.
timer_publish_InitialMode(mode, ok) ==
    <<[ev |-> "timer_status", mode |-> mode_names[AVAILABLE + 1]]>>
    \o (IF ok THEN <<>> ELSE <<Log("Failed to publish status")>>)

\* publish_status called by the status timer's callback; its publish is
\* recorded apart from the publishes of the loop's own calls.
timer_publish(mode, ok) ==
    <<[ev |-> "timer_status", mode |-> mode_names[mode + 1]]>>
    \o (IF ok THEN <<>> ELSE <<Log("Failed to publish status")>>)

\* The ways the status timer's callback can run inside a step: not at all,
\* or with its publish accepted or raising.
Firings ==
    IF status_timer = "periodic" THEN {"no", "accepted", "raised"} ELSE {"no"}

\* The retained Status Message at the broker after publish_status.
Retained(mode, ok) == IF ok THEN mode_names[mode + 1] ELSE retained_status

-----------------------------------------------------------------------------
(* main(): startup                                                         *)

\* sys.exit(1) from main()'s except clause.
Fatal(text) ==
    /\ pc' = "exited"
    /\ exit_status' = 1
    /\ out' = <<Log(text)>>

\* node = ChimeNode()
Construct ==
    /\ pc = "construct"
    /\ last' = "construct"
    /\ \/ /\ pc' = "connect_wifi"
          /\ out' = <<>>
          /\ UNCHANGED exit_status
       \/ Fatal("Fatal error")
    /\ UNCHANGED <<node_state, history, hardware, mqtt_client, status_timer,
                   retained_status, now>>

\* node.connect_wifi(): returns once the interface is connected (it waits
\* without limit until then); an error of the network layer propagates.
connect_wifi ==
    /\ pc = "connect_wifi"
    /\ last' = "connect_wifi"
    /\ \/ /\ pc' = "connect_mqtt"
          /\ out' = <<>>
          /\ UNCHANGED exit_status
       \/ Fatal("Fatal error")
    /\ UNCHANGED <<node_state, history, hardware, mqtt_client, status_timer,
                   retained_status, now>>

\* node.connect_mqtt(): a failure is logged and re-raised.
connect_mqtt ==
    /\ pc = "connect_mqtt"
    /\ last' = "connect_mqtt"
    /\ \/ /\ pc' = "publish_chime_info"
          /\ mqtt_client' = "connected"
          /\ out' = <<>>
          /\ UNCHANGED exit_status
       \/ /\ Fatal("MQTT connection failed")
          /\ mqtt_client' = "None"
    /\ UNCHANGED <<node_state, history, hardware, status_timer, retained_status, now>>

AdvertTopics == <<"list", "notes", "chords">>

\* What publish_chime_info does next after `sent` of the three retained
\* advertisement publishes were accepted: "status" (all three accepted,
\* publish_status follows) or "except" (the next publish raised and the
\* except clause logs it).
AfterAdverts(sent) == IF sent = Len(AdvertTopics) THEN "status" ELSE "except"

\* The first n advertisement publishes.
Adverts(n) == [i \in 1..n |-> AdvertMsg(AdvertTopics[i])]

\* main() giving up when the advertisement could not be published.
AfterChimeInfo_Fatal(step) == IF step = "except" THEN "exited" ELSE "run"

\* What main() does after publish_chime_info returned.
AfterChimeInfo(step) == "run"

\* node.publish_chime_info()
publish_chime_info ==
    /\ pc = "publish_chime_info"
    /\ last' = "publish_chime_info"
    /\ \E sent \in 0..Len(AdvertTopics), ok \in BOOLEAN :
         /\ IF AfterAdverts(sent) = "status"
              THEN /\ out' = Adverts(sent) \o publish_status(current_mode, ok)
                   /\ retained_status' = Retained(current_mode, ok)
              ELSE /\ ok
                   /\ out' = Adverts(sent + 1)
                             \o <<Log("Failed to publish chime info")>>
                   /\ UNCHANGED retained_status
         /\ pc' = AfterChimeInfo(AfterAdverts(sent))
    /\ UNCHANGED <<exit_status, node_state, history, hardware, mqtt_client,
                   status_timer, now>>

\* node.run() up to the main loop: the periodic status timer is started.
run_init ==
    /\ pc = "run"
    /\ last' = "run"
    /\ status_timer' = "periodic"
    /\ pc' = "check_msg"
    /\ out' = <<>>
    /\ UNCHANGED <<exit_status, node_state, history, hardware, mqtt_client,
                   retained_status, now>>

-----------------------------------------------------------------------------
(* Incoming messages                                                       *)

MISSING == "<missing>"
UNHASHABLE == "<array>"

\* The value of the "notes" key: absent, a JSON array (items: strings, or
\* UNHASHABLE for an element that is itself an array), or a number.
NotesAbsent == [kind |-> "absent", items |-> <<>>]
NotesList(items) == [kind |-> "list", items |-> items]
NotesNumber == [kind |-> "number", items |-> <<>>]

\* A payload: valid says whether ujson.loads accepts it; a key that is not
\* in the object is MISSING.
Garbage ==
    [valid |-> FALSE, chime_id |-> MISSING, user |-> MISSING, notes |-> NotesAbsent]

Req(id, user, notes) ==
    [valid |-> TRUE, chime_id |-> id, user |-> user, notes |-> notes]

NotesChoices ==
    {NotesAbsent, NotesList(<<>>), NotesList(<<"C4", "E4">>),
     NotesList(<<"C4", "H9">>), NotesNumber, NotesList(<<"C4", UNHASHABLE>>)}

\* notes is an array (or absent) of strings: the Ring Request schema.
NotesWellFormed(notes) ==
    /\ notes.kind \in {"absent", "list"}
    /\ \A i \in 1..Len(notes.items) : notes.items[i] # UNHASHABLE

WellFormed(p) ==
    /\ p.valid
    /\ p.chime_id # MISSING
    /\ p.user # MISSING
    /\ NotesWellFormed(p.notes)

Payloads ==
    {Garbage, Req(MISSING, "u", NotesAbsent), Req("X", MISSING, NotesAbsent),
     Req("Y", "u", NotesAbsent)}
    \cup {Req("X", "u", n) : n \in NotesChoices}

Recv(topic, p) == [ev |-> "recv", topic |-> topic, payload |-> p]

-----------------------------------------------------------------------------
(* handle_ring_request and play_chime                                      *)

\* The gating with Available answering at once, as Grinding does.
Gate_AvailableResponds(mode) ==
    [should_chime |-> mode # DO_NOT_DISTURB,
     should_auto_respond |-> mode \in {AVAILABLE, GRINDING},
     auto_response_type |-> IF mode \in {AVAILABLE, GRINDING} THEN "Positive" ELSE "",
     defer |-> mode = CHILL_GRINDING]

\* The gating with Available recording a pending response, as ChillGrinding
\* does.
Gate_AvailableDefers(mode) ==
    [should_chime |-> mode # DO_NOT_DISTURB,
     should_auto_respond |-> mode = GRINDING,
     auto_response_type |-> IF mode = GRINDING THEN "Positive" ELSE "",
     defer |-> mode \in {AVAILABLE, CHILL_GRINDING}]

\* The mode branches of handle_ring_request; defer is the ChillGrinding
\* branch's recording of the pending response.
Gate(mode) ==
    CASE mode = DO_NOT_DISTURB ->
           [should_chime |-> FALSE, should_auto_respond |-> FALSE,
            auto_response_type |-> "", defer |-> FALSE]
      [] mode = AVAILABLE ->
           [should_chime |-> TRUE, should_auto_respond |-> FALSE,
            auto_response_type |-> "", defer |-> FALSE]
      [] mode = CHILL_GRINDING ->
           [should_chime |-> TRUE, should_auto_respond |-> FALSE,
            auto_response_type |-> "", defer |-> TRUE]
      [] mode = GRINDING ->
           [should_chime |-> TRUE, should_auto_respond |-> TRUE,
            auto_response_type |-> "Positive", defer |-> FALSE]

\* The lookup with E4 sounding at the frequency of D4.
NoteFreq_E4AsD4(note) == IF note = "E4" THEN 294 ELSE NOTE_FREQUENCIES[note]

\* Frequency the buzzer is set to for a note of the table.
NoteFreq(note) == NOTE_FREQUENCIES[note]

RECURSIVE PlayNotes(_)
\* The loop over explicit notes: a name of the table sounds for NoteMs, any
\* other string is skipped, and an unhashable element makes
\* `note in NOTE_FREQUENCIES` raise.
PlayNotes(items) ==
    IF items = <<>> THEN [tones |-> <<>>, raised |-> FALSE]
    ELSE IF Head(items) = UNHASHABLE THEN [tones |-> <<>>, raised |-> TRUE]
    ELSE LET rest == PlayNotes(Tail(items))
             this == IF Head(items) \in DOMAIN NOTE_FREQUENCIES
                       THEN <<Tone(NoteFreq(Head(items)), NoteMs)>>
                       ELSE <<>>
         IN  [tones |-> this \o rest.tones, raised |-> rest.raised]

\* The default pattern with every note sounding for NoteMs, as an explicit
\* note does.
PlayDefault_FixedDuration ==
    [i \in 1..Len(DEFAULT_CHIME) |-> Tone(NoteFreq(DEFAULT_CHIME[i][1]), NoteMs)]

\* The loop over DEFAULT_CHIME, each note for its own duration.
PlayDefault ==
    LET known == SelectSeq(DEFAULT_CHIME, LAMBDA p : p[1] \in DOMAIN NOTE_FREQUENCIES)
    IN  [i \in 1..Len(known) |-> Tone(NoteFreq(known[i][1]), known[i][2])]

\* `if notes:` in play_chime.
Truthy(notes) ==
    \/ notes.kind = "number"
    \/ notes.kind = "list" /\ notes.items # <<>>

\* play_chime(notes): the tones sounded, and whether it raised.
play_chime(notes) ==
    IF Truthy(notes)
      THEN IF notes.kind = "number"
             THEN [tones |-> <<>>, raised |-> TRUE]
             ELSE PlayNotes(notes.items)
      ELSE [tones |-> PlayDefault, raised |-> FALSE]

\* The duty values play_chime writes to the buzzer: DutyOn and 0 around
\* every tone, and a last 0 when it returns.
DutyWrites(chime) ==
    [i \in 1..(2 * Len(chime.tones)) |-> IF i % 2 = 1 THEN DutyOn ELSE 0]
    \o (IF chime.raised THEN <<>> ELSE <<0>>)

\* The duty of the buzzer after play_chime.
DutyAfter(chime) ==
    LET w == DutyWrites(chime)
    IN  IF w = <<>> THEN buzzer_duty ELSE w[Len(w)]

\* json parsing and the two required keys.
Parsed(p) == p.valid /\ p.chime_id # MISSING /\ p.user # MISSING

\* The deadline recorded for a request handled at tick t.
Deadline(t) == t + ResponseDelayMs

\* The response naming this node's own chime instead of the request's.
AfterChime_OwnChimeId(g, chime, id, ok) ==
    IF chime.raised THEN <<Log("Failed to handle ring request")>>
    ELSE IF g.should_auto_respond
           THEN send_response(g.auto_response_type, "chime_mac", ok)
    ELSE <<>>

\* What follows play_chime in handle_ring_request.
AfterChime(g, chime, id, ok) ==
    IF chime.raised THEN <<Log("Failed to handle ring request")>>
    ELSE IF g.should_auto_respond THEN send_response(g.auto_response_type, id, ok)
    ELSE <<>>

\* handle_ring_request(message), called from mqtt_callback.  The tick
\* counter is read in the ChillGrinding branch only, and publish is called
\* only where a response is sent.
handle_ring_request(p) ==
    IF ~Parsed(p)
      THEN /\ out' = <<Recv("ring", p), Log("Failed to handle ring request")>>
           /\ UNCHANGED <<pending_chime_id, chime_response_deadline, now,
                          buzzer_duty, history>>
      ELSE LET g == Gate(current_mode)
               chime == play_chime(p.notes)
               publishes == g.should_chime /\ ~chime.raised /\ g.should_auto_respond
           IN  /\ IF g.defer
                    THEN \E t \in TimePoints :
                           /\ pending_chime_id' = p.chime_id
                           /\ chime_response_deadline' = Deadline(t)
                           /\ now' = t
                           /\ replaced_chime_id' =
                                (IF pending_chime_id # p.chime_id
                                   THEN pending_chime_id ELSE replaced_chime_id)
                    ELSE UNCHANGED <<pending_chime_id, chime_response_deadline,
                                     now, history>>
               /\ IF g.should_chime
                    THEN /\ \E ok \in (IF publishes THEN BOOLEAN ELSE {TRUE}) :
                              out' = <<Recv("ring", p)>> \o chime.tones
                                     \o AfterChime(g, chime, p.chime_id, ok)
                         /\ buzzer_duty' = DutyAfter(chime)
                    ELSE /\ out' = <<Recv("ring", p)>>
                         /\ UNCHANGED buzzer_duty

LoopPcs == {"check_msg", "button", "led", "pending"}

\* The loop body polling the button before it takes in messages.
NextStep_ButtonFirst(step) ==
    CASE step = "check_msg" -> "led"
      [] step = "button" -> "check_msg"
      [] step = "led" -> "pending"
      [] step = "pending" -> "button"

\* The step of the loop body that follows `step`.
NextStep(step) ==
    CASE step = "check_msg" -> "button"
      [] step = "button" -> "led"
      [] step = "led" -> "pending"
      [] step = "pending" -> "check_msg"

\* self.mqtt_client.check_msg() with a message on the ring topic.
check_msg_ring ==
    /\ pc = "check_msg"
    /\ last' = "check_msg"
    /\ pc' = NextStep("check_msg")
    /\ \E p \in Payloads : handle_ring_request(p)
    /\ UNCHANGED <<exit_status, current_mode, last_button_press, button_pressed,
                   led_state, last_led_toggle, mqtt_client, status_timer,
                   status_led, user_button, retained_status>>

\* check_msg() with nothing buffered, or with a message whose topic does
\* not end in "/ring" (mqtt_callback ignores it).
check_msg_idle ==
    /\ pc = "check_msg"
    /\ last' = "check_msg"
    /\ pc' = NextStep("check_msg")
    /\ \/ out' = <<>>
       \/ out' = <<Recv("other", Garbage)>>
    /\ UNCHANGED <<exit_status, node_state, history, hardware, mqtt_client, status_timer,
                   retained_status, now>>

\* check_msg() raises (socket error), or mqtt_callback's decode() raises on
\* bytes that are not UTF-8: run() catches only KeyboardInterrupt, so the
\* exception reaches main().
check_msg_error ==
    /\ pc = "check_msg"
    /\ last' = "check_msg"
    /\ Fatal("Fatal error")
    /\ UNCHANGED <<node_state, history, hardware, mqtt_client, status_timer,
                   retained_status, now>>

-----------------------------------------------------------------------------
(* handle_button                                                           *)

\* The cycle with the modulus one short: Grinding is never entered.
NextMode_Mod3(mode) == (mode + 1) % 3

\* The mode after a recognized press with nothing pending.
NextMode(mode) == (mode + 1) % ModeCount

\* The debounce window closed at its end: 500 ms are enough.
Debounced_AtLeast(t, last_press) == ticks_diff(t, last_press) >= DebounceMs

\* The debounce condition on the tick reading t.
Debounced(t, last_press) == ticks_diff(t, last_press) > DebounceMs

\* button_state = not self.user_button.value()
ButtonState(value) == value = 0

\* A new press is recognized.
Recognized(value, t) ==
    ButtonState(value) /\ ~button_pressed /\ Debounced(t, last_button_press)

\* The press answering without clearing the pending state.
AnswerPending_KeepsPending(ok) ==
    /\ out' = send_response("Positive", pending_chime_id, ok)
    /\ UNCHANGED <<pending_chime_id, chime_response_deadline, current_mode,
                   retained_status, history>>

\* The recognized press with a pending response: answer it.
AnswerPending(ok) ==
    /\ out' = send_response("Positive", pending_chime_id, ok)
    /\ pending_chime_id' = ""
    /\ chime_response_deadline' = 0
    /\ replaced_chime_id' = ""
    /\ UNCHANGED <<current_mode, retained_status>>

\* The mode change publishing the status it built before the change.
CycleMode_StaleStatus(ok, fired) ==
    /\ current_mode' = NextMode(current_mode)
    /\ out' = (IF fired = "no" THEN <<>>
                ELSE timer_publish(current_mode', fired = "accepted"))
              \o publish_status(current_mode, ok)
    /\ retained_status' =
         (IF ok THEN mode_names[current_mode + 1]
          ELSE Retained(current_mode', fired = "accepted"))
    /\ UNCHANGED <<pending_chime_id, chime_response_deadline, history>>

\* The recognized press with nothing pending: cycle the mode.  `fired`
\* is the status timer's callback running between the assignment of the
\* mode and publish_status, the one place inside a step where the callback
\* sees state the step has already changed.
CycleMode(ok, fired) ==
    /\ current_mode' = NextMode(current_mode)
    /\ out' = (IF fired = "no" THEN <<>>
                ELSE timer_publish(current_mode', fired = "accepted"))
              \o publish_status(current_mode', ok)
    /\ retained_status' = Retained(current_mode', ok \/ fired = "accepted")
    /\ UNCHANGED <<pending_chime_id, chime_response_deadline, history>>

\* handle_button(): value is the level read from the button pin.
handle_button ==
    /\ pc = "button"
    /\ last' = "handle_button"
    /\ pc' = NextStep("button")
    /\ \E value \in {0, 1}, t \in TimePoints :
         /\ user_button' = value
         /\ now' = t
         /\ IF Recognized(value, t)
              THEN /\ button_pressed' = TRUE
                   /\ last_button_press' = t
                   /\ \E ok \in BOOLEAN :
                        IF pending_chime_id # ""
                          THEN AnswerPending(ok)
                          ELSE \E fired \in Firings : CycleMode(ok, fired)
              ELSE /\ button_pressed' = (IF ~ButtonState(value) /\ button_pressed
                                           THEN FALSE ELSE button_pressed)
                   /\ out' = <<>>
                   /\ UNCHANGED <<last_button_press, current_mode, pending_chime_id,
                                  chime_response_deadline, retained_status,
                                  history>>
    /\ UNCHANGED <<exit_status, led_state, last_led_toggle, mqtt_client,
                   status_timer, status_led, buzzer_duty>>

-----------------------------------------------------------------------------
(* handle_status_led                                                       *)

\* blink_interval for the three blinking modes.
BlinkInterval(mode) ==
    CASE mode = DO_NOT_DISTURB -> 2000
      [] mode = AVAILABLE -> 1000
      [] mode = CHILL_GRINDING -> 500

\* The toggle condition on the tick reading t.
BlinkDue(t, last_toggle, mode) == ticks_diff(t, last_toggle) > BlinkInterval(mode)

handle_status_led ==
    /\ pc = "led"
    /\ last' = "handle_status_led"
    /\ pc' = NextStep("led")
    /\ out' = <<>>
    /\ \E t \in TimePoints :
         /\ now' = t
         /\ IF current_mode \notin {DO_NOT_DISTURB, AVAILABLE, CHILL_GRINDING}
              THEN /\ status_led' = TRUE
                   /\ UNCHANGED <<led_state, last_led_toggle>>
              ELSE IF BlinkDue(t, last_led_toggle, current_mode)
                     THEN /\ led_state' = ~led_state
                          /\ status_led' = led_state'
                          /\ last_led_toggle' = t
                     ELSE UNCHANGED <<led_state, status_led, last_led_toggle>>
    /\ UNCHANGED <<exit_status, current_mode, last_button_press, button_pressed,
                   pending_chime_id, chime_response_deadline, mqtt_client,
                   status_timer, buzzer_duty, user_button, retained_status,
                   history>>

-----------------------------------------------------------------------------
(* handle_pending_responses                                                *)

\* The expiry condition on the tick reading t.
Expired(t, deadline) == t > deadline

\* The timeout path falling through to the mode cycling of handle_button.
AutoRespond_Cycles(ok) ==
    /\ out' = send_response("Positive", pending_chime_id, ok)
    /\ pending_chime_id' = ""
    /\ chime_response_deadline' = 0
    /\ replaced_chime_id' = ""
    /\ current_mode' = NextMode(current_mode)

\* The expired deadline: answer the pending request.
AutoRespond(ok) ==
    /\ out' = send_response("Positive", pending_chime_id, ok)
    /\ pending_chime_id' = ""
    /\ chime_response_deadline' = 0
    /\ replaced_chime_id' = ""
    /\ UNCHANGED current_mode

\* handle_pending_responses(), then the loop's sleep_ms(10).  The tick
\* counter is read only when a response is pending.
handle_pending_responses ==
    /\ pc = "pending"
    /\ last' = "handle_pending_responses"
    /\ pc' = NextStep("pending")
    /\ IF pending_chime_id = ""
         THEN /\ out' = <<>>
              /\ UNCHANGED <<current_mode, pending_chime_id,
                             chime_response_deadline, now, history>>
         ELSE \E t \in TimePoints :
                /\ now' = t
                /\ IF Expired(t, chime_response_deadline)
                     THEN \E ok \in BOOLEAN : AutoRespond(ok)
                     ELSE /\ out' = <<>>
                          /\ UNCHANGED <<current_mode, pending_chime_id,
                                         chime_response_deadline, history>>
    /\ UNCHANGED <<exit_status, last_button_press, button_pressed,
                   led_state, last_led_toggle, mqtt_client, status_timer,
                   hardware, retained_status>>

-----------------------------------------------------------------------------
(* The periodic status timer, KeyboardInterrupt and cleanup                *)

\* The status_timer callback, lambda t: self.publish_status(), running
\* between two steps of the loop (inside a step other than the mode change
\* of handle_button it reads the mode the step started with, and acts as
\* if it ran before the step).  A timer that was not cancelled goes on
\* firing after run() and main() have returned.
timer_callback ==
    /\ pc \in LoopPcs \/ (pc = "exited" /\ exit_status = 0)
    /\ status_timer = "periodic"
    /\ last' = "timer_callback"
    /\ \E ok \in (IF mqtt_client = "connected" THEN BOOLEAN ELSE {FALSE}) :
         /\ out' = timer_publish(current_mode, ok)
         /\ retained_status' = Retained(current_mode, ok)
    /\ UNCHANGED <<pc, exit_status, node_state, history, hardware, mqtt_client,
                   status_timer, now>>

CleanupCalls == <<"buzzer.duty", "status_led.off", "led_timer.deinit",
                  "status_timer.deinit", "mqtt_client.disconnect">>

\* The calls of cleanup() that ran when call number `failed` raised
\* (failed = Len(CleanupCalls) + 1: none raised).
Ran(failed) == {CleanupCalls[i] : i \in 1..(failed - 1)}

\* KeyboardInterrupt in the main loop: run() calls cleanup() and returns,
\* and main() returns.
keyboard_interrupt ==
    /\ pc \in LoopPcs
    /\ last' = "cleanup"
    /\ pc' = "exited"
    /\ \E failed \in 1..(Len(CleanupCalls) + 1) :
         /\ buzzer_duty' = (IF "buzzer.duty" \in Ran(failed) THEN 0 ELSE buzzer_duty)
         /\ status_led' = (IF "status_led.off" \in Ran(failed) THEN FALSE ELSE status_led)
         /\ status_timer' = (IF "status_timer.deinit" \in Ran(failed)
                               THEN "deinit" ELSE status_timer)
         /\ mqtt_client' = (IF "mqtt_client.disconnect" \in Ran(failed)
                              THEN "disconnected" ELSE mqtt_client)
         /\ out' = (IF failed <= Len(CleanupCalls) THEN <<Log("Cleanup error")>>
                                                   ELSE <<>>)
    /\ UNCHANGED <<exit_status, node_state, history, user_button, retained_status, now>>

-----------------------------------------------------------------------------

Next ==
    \/ Construct
    \/ connect_wifi
    \/ connect_mqtt
    \/ publish_chime_info
    \/ run_init
    \/ check_msg_ring
    \/ check_msg_idle
    \/ check_msg_error
    \/ handle_button
    \/ handle_status_led
    \/ handle_pending_responses
    \/ timer_callback
    \/ keyboard_interrupt

Spec == Init /\ [][Next]_vars

-----------------------------------------------------------------------------
(* Vocabulary of the properties                                            *)

Tones(o) == Select(o, "tone")
Responses(o) == Select(o, "response")
Logs(o) == Select(o, "log")

\* o is the outcome of check_msg delivering a message on the ring topic.
RingDelivered(o) == o # <<>> /\ o[1].ev = "recv" /\ o[1].topic = "ring"

\* The step is check_msg delivering a ring request of the schema.
RingHandled ==
    /\ pc = "check_msg"
    /\ last' = "check_msg"
    /\ RingDelivered(out')
    /\ WellFormed(out'[1].payload)

\* The step is handle_button recognizing a new press: the pressed flag is
\* set by nothing else.
PressRecognized ==
    pc = "button" /\ last' = "handle_button" /\ ~button_pressed /\ button_pressed'

\* The step is the deadline poll.
DeadlinePoll == pc = "pending" /\ last' = "handle_pending_responses"

-----------------------------------------------------------------------------
(* C1  Mode cycling                                                        *)

\* The order of the modes, as the specification lists it.
ModeAfter(m) ==
    CASE m = DO_NOT_DISTURB -> AVAILABLE
      [] m = AVAILABLE -> CHILL_GRINDING
      [] m = CHILL_GRINDING -> GRINDING
      [] m = GRINDING -> DO_NOT_DISTURB

\* C1: a recognized button press with no pending response moves the mode
\* one step in the order DoNotDisturb -> Available -> ChillGrinding ->
\* Grinding -> DoNotDisturb, for every mode; four such presses lead back
\* to the mode they started from; the mode is always one of the four.
C1_ModeCycle ==
    /\ [](current_mode \in Modes)
    /\ [](\A m \in Modes : NextMode(NextMode(NextMode(NextMode(m)))) = m)
    /\ [][PressRecognized /\ pending_chime_id = ""
            => current_mode' = ModeAfter(current_mode)]_vars

\* The press that takes Grinding back to DoNotDisturb has been handled.
C1_Witness ==
    /\ last = "handle_button"
    /\ button_pressed
    /\ current_mode = DO_NOT_DISTURB
    /\ Select(out, "status") = <<StatusMsg(DO_NOT_DISTURB)>>

-----------------------------------------------------------------------------
(* C2  Only a button press changes the mode                                *)

\* C2: current_mode changes only in a handle_button step that recognizes a
\* press; delivering any message, the deadline poll, the LED poll,
\* send_response, publish_status and the timer callback leave it as it is.
C2_ModeFrame ==
    [][current_mode' # current_mode => PressRecognized]_vars

\* The deadline poll has answered a pending request and the mode is still
\* ChillGrinding.
C2_Witness ==
    /\ last = "handle_pending_responses"
    /\ Responses(out) # <<>>
    /\ pending_chime_id = ""
    /\ current_mode = CHILL_GRINDING

-----------------------------------------------------------------------------
(* C3  Gating table                                                        *)

\* C3: a well-formed ring request is gated by the mode it arrives in.
\* DoNotDisturb: no tone, no response, no pending response recorded.
\* Available: the chime, no response, nothing recorded.  ChillGrinding:
\* the chime, no response now, and the request recorded as pending with a
\* deadline ResponseDelayMs after the tick read.  Grinding: the chime, then
\* one Positive response sent at once, nothing recorded.
C3_GatingTable ==
    [][RingHandled =>
        LET id == out'[1].payload.chime_id
            unrecorded == /\ pending_chime_id' = pending_chime_id
                          /\ chime_response_deadline' = chime_response_deadline
        IN  CASE current_mode = DO_NOT_DISTURB ->
                   Tones(out') = <<>> /\ Responses(out') = <<>> /\ unrecorded
              [] current_mode = AVAILABLE ->
                   Tones(out') # <<>> /\ Responses(out') = <<>> /\ unrecorded
              [] current_mode = CHILL_GRINDING ->
                   /\ Tones(out') # <<>>
                   /\ Responses(out') = <<>>
                   /\ pending_chime_id' = id
                   /\ chime_response_deadline' = now' + 10000
              [] current_mode = GRINDING ->
                   /\ Tones(out') # <<>>
                   /\ Responses(out') = <<ResponseMsg("Positive", id)>>
                   /\ unrecorded
    ]_vars

\* A request was chimed in ChillGrinding and recorded as pending.
C3_Witness ==
    /\ last = "check_msg"
    /\ RingDelivered(out)
    /\ WellFormed(out[1].payload)
    /\ current_mode = CHILL_GRINDING
    /\ Tones(out) # <<>>
    /\ pending_chime_id = out[1].payload.chime_id
    /\ chime_response_deadline = now + 10000

-----------------------------------------------------------------------------
(* C4  Grinding answers at once                                            *)

\* Position of the first effect of the kind in o (0: none).
FirstOf(o, kind) ==
    IF \E i \in 1..Len(o) : o[i].ev = kind
      THEN CHOOSE i \in 1..Len(o) :
             o[i].ev = kind /\ \A j \in 1..(i - 1) : o[j].ev # kind
      ELSE 0

\* C4: in Grinding, a well-formed ring request with chime_id X makes the
\* node publish exactly one Response Message, with response "Positive",
\* original_chime_id X and this node's node_id, after the last tone of the
\* chime; nothing is left pending, and a deadline poll or button press with
\* nothing pending publishes no response, so no second one follows.
C4_GrindingResponse ==
    /\ [][RingHandled /\ current_mode = GRINDING =>
            /\ Responses(out') =
                 <<[ev |-> "response", response |-> "Positive",
                    node_id |-> NODE_ID,
                    original_chime_id |-> out'[1].payload.chime_id]>>
            /\ Tones(out') # <<>>
            /\ \A i \in 1..Len(out') :
                 out'[i].ev = "tone" => i < FirstOf(out', "response")
            /\ pending_chime_id' = ""
        ]_vars
    /\ [][(DeadlinePoll \/ (pc = "button" /\ last' = "handle_button"))
          /\ pending_chime_id = "" => Responses(out') = <<>>]_vars

\* A request for X was chimed and answered in Grinding.
C4_Witness ==
    /\ last = "check_msg"
    /\ current_mode = GRINDING
    /\ RingDelivered(out)
    /\ out[1].payload.chime_id = "X"
    /\ Tones(out) # <<>>
    /\ out[Len(out)] = ResponseMsg("Positive", "X")

-----------------------------------------------------------------------------
(* C5  The request of section 8.3 in Available                             *)

C5_Request == Req("X", "u", NotesList(<<"C4", "E4">>))

Freqs(o) == [i \in 1..Len(Tones(o)) |-> Tones(o)[i].freq]

\* The step's outcome is C5_Request delivered in Available.
C5_Case ==
    /\ last = "check_msg"
    /\ current_mode = AVAILABLE
    /\ out # <<>>
    /\ out[1] = Recv("ring", C5_Request)

\* C5 as claimed: the buzzer plays C4 at 262 Hz, then E4 at 294 Hz, and no
\* response is published.
C5_AsClaimed ==
    C5_Case => Freqs(out) = <<262, 294>> /\ Responses(out) = <<>>

\* C5: in Available, the ring request {chime_id: X, user: u, notes: [C4, E4]}
\* makes the buzzer play C4 at 262 Hz and then E4 at 330 Hz, in that order,
\* and no Response Message is published for it.
C5_AvailableRequest ==
    C5_Case => Freqs(out) = <<262, 330>> /\ Responses(out) = <<>>

\* The request was handled in Available and two tones sounded.
C5_Witness == C5_Case /\ Len(Tones(out)) = 2 /\ pending_chime_id = ""

-----------------------------------------------------------------------------
(* C6  The deferred ChillGrinding response                                 *)

\* The tick at which the pending request was handled.
RecordedAt == chime_response_deadline - 10000

\* The deadline poll reads the counter more than 10000 ms, and less than
\* half the counter's period, after the pending request was handled.
PolledPastDeadline ==
    /\ DeadlinePoll
    /\ pending_chime_id # ""
    /\ Elapsed(now', RecordedAt) > 10000
    /\ Elapsed(now', RecordedAt) < TicksPeriod \div 2

\* C6 as claimed: a request recorded as pending in ChillGrinding is answered
\* by the deadline poll once more than 10000 ms (and less than half the
\* counter's period) have passed since it was handled, never before 10000
\* ms have passed, and the pending state is then cleared.
C6_AsClaimed ==
    [][DeadlinePoll /\ pending_chime_id # "" =>
         /\ PolledPastDeadline =>
              /\ Responses(out') = <<ResponseMsg("Positive", pending_chime_id)>>
              /\ pending_chime_id' = ""
         /\ Responses(out') # <<>> => Elapsed(now', RecordedAt) >= 10000
    ]_vars

-----------------------------------------------------------------------------
(* C7  The button answers the pending request                              *)

\* C7: with a response for X pending, a recognized press publishes exactly
\* one Positive response for X, clears pending_chime_id and the deadline
\* and leaves the mode (and the published status) alone; a deadline poll
\* with nothing pending publishes nothing, and the deadline poll clears the
\* pending state with its answer, so the press and the timeout never both
\* answer one request.
C7_ButtonAnswers ==
    /\ [][PressRecognized /\ pending_chime_id # "" =>
            /\ Responses(out') =
                 <<[ev |-> "response", response |-> "Positive",
                    node_id |-> NODE_ID, original_chime_id |-> pending_chime_id]>>
            /\ Select(out', "status") = <<>>
            /\ pending_chime_id' = ""
            /\ chime_response_deadline' = 0
            /\ current_mode' = current_mode
        ]_vars
    /\ [][DeadlinePoll =>
            /\ pending_chime_id = "" => out' = <<>>
            /\ Responses(out') # <<>> => pending_chime_id' = ""
        ]_vars

\* The press has answered the pending request for X in ChillGrinding.
C7_Witness ==
    /\ last = "handle_button"
    /\ button_pressed
    /\ current_mode = CHILL_GRINDING
    /\ Responses(out) = <<ResponseMsg("Positive", "X")>>
    /\ pending_chime_id = ""
    /\ chime_response_deadline = 0

-----------------------------------------------------------------------------
(* C8  Debounce and edge detection                                         *)

ButtonPoll == pc = "button" /\ last' = "handle_button"

\* The poll reads the line pressed, with the flag clear, exactly 500 ms
\* after last_button_press.
C8_AtWindowEnd ==
    /\ ButtonPoll
    /\ user_button' = 0
    /\ ~button_pressed
    /\ Elapsed(now', last_button_press) = 500

\* C8 as claimed: a press sampled exactly 500 ms after the previous
\* recognized one is recognized.
C8_AsClaimed == [][C8_AtWindowEnd => button_pressed']_vars

\* C8: handle_button recognizes a new press only when the line reads
\* pressed, the pressed flag is false and more than 500 ms have passed
\* since last_button_press (and does recognize it then, up to half the
\* counter's period); recognized presses are more than 500 ms apart; a
\* press sampled exactly 500 ms after the last recognized one is not
\* recognized; a poll that finds the button held changes nothing, a
\* release only clears the flag, and a recognized press makes one mode
\* change or one response.
C8_Debounce ==
    [][ButtonPoll =>
         /\ PressRecognized =>
              /\ user_button' = 0
              /\ Elapsed(now', last_button_press) > 500
              /\ last_button_press' = now'
              /\ Len(Responses(out')) + Len(Select(out', "status")) = 1
         /\ /\ user_button' = 0
            /\ ~button_pressed
            /\ Elapsed(now', last_button_press) > 500
            /\ Elapsed(now', last_button_press) < TicksPeriod \div 2
            => PressRecognized
         /\ C8_AtWindowEnd => ~button_pressed'
         /\ ~PressRecognized =>
              /\ out' = <<>>
              /\ UNCHANGED <<current_mode, pending_chime_id,
                             chime_response_deadline, last_button_press>>
         /\ button_pressed => button_pressed' = (user_button' = 0)
    ]_vars

\* A press sampled exactly 500 ms after a recognized one was not recognized.
C8_Witness ==
    /\ last = "handle_button"
    /\ user_button = 0
    /\ ~button_pressed
    /\ last_button_press # 0
    /\ Elapsed(now, last_button_press) = 500
    /\ out = <<>>

-----------------------------------------------------------------------------
(* C9  Malformed ring requests                                             *)

\* The step is check_msg delivering a ring payload that is not of the schema.
MalformedHandled ==
    /\ pc = "check_msg"
    /\ last' = "check_msg"
    /\ RingDelivered(out')
    /\ ~WellFormed(out'[1].payload)

\* C9 as claimed: a payload that is not of the Ring Request schema plays no
\* chime, causes no response, immediate or deferred through a pending
\* response, and leaves the mode unchanged.
C9_AsClaimed ==
    [][MalformedHandled =>
         /\ Tones(out') = <<>>
         /\ Responses(out') = <<>>
         /\ pending_chime_id' = pending_chime_id
         /\ chime_response_deadline' = chime_response_deadline
         /\ current_mode' = current_mode
    ]_vars

-----------------------------------------------------------------------------
(* C10  Startup                                                            *)

\* publish_chime_info has just logged that the advertisement could not be
\* published.
AdvertFailed ==
    /\ last = "publish_chime_info"
    /\ Logs(out) = <<Log("Failed to publish chime info")>>

\* C10 as claimed: a failure to publish the advertisement aborts the
\* process with a non-zero exit status.
C10_AsClaimed == AdvertFailed => pc = "exited" /\ exit_status # 0

\* C10: startup runs construct, connect WiFi, connect MQTT, publish
\* advertisement in this order; the loop is entered only with the MQTT
\* session connected and after publish_chime_info returned; a failure of
\* construct, connect WiFi or connect MQTT ends the process with exit
\* status 1 and the loop is never entered; a failure to publish the
\* advertisement is logged and the loop is entered all the same.
C10_Startup ==
    /\ [][pc' # pc =>
            /\ pc' = "connect_wifi" => pc = "construct"
            /\ pc' = "connect_mqtt" => pc = "connect_wifi"
            /\ pc' = "publish_chime_info" => pc = "connect_mqtt"
            /\ pc' = "run" => pc = "publish_chime_info"
            /\ pc' \in LoopPcs => pc \in LoopPcs \cup {"run"}
        ]_vars
    /\ [][(pc \in {"construct", "connect_wifi", "connect_mqtt"} /\ Len(out') > 0)
            => (pc' = "exited" /\ exit_status' = 1)]_vars
    /\ [][pc = "exited" => pc' = "exited"]_vars
    /\ [](pc \in LoopPcs \cup {"run"} => mqtt_client = "connected" /\ exit_status = 0)
    /\ [](last = "publish_chime_info" => pc = "run" /\ exit_status = 0)

\* The loop has been entered although no status, and so not the whole
\* advertisement, was published.
C10_Witness ==
    /\ pc = "check_msg"
    /\ last = "run"
    /\ retained_status = "none"
    /\ status_timer = "periodic"

-----------------------------------------------------------------------------
(* C11  Failures inside the loop                                           *)

\* C11 as claimed: once the loop runs, no message taken in, no error of
\* message intake and no failed publish ends it: every step taken inside
\* the loop, other than the requested shutdown, is followed by the next
\* step of the loop.
C11_AsClaimed == [][(pc \in LoopPcs /\ last' # "cleanup") => pc' \in LoopPcs]_vars

-----------------------------------------------------------------------------
(* C12  Shutdown                                                           *)

\* The cleanup actions whose effect is missing.
CleanupUndone ==
    (IF buzzer_duty # 0 THEN {"buzzer"} ELSE {})
    \cup (IF status_led THEN {"led"} ELSE {})
    \cup (IF status_timer # "deinit" THEN {"timer"} ELSE {})
    \cup (IF mqtt_client # "disconnected" THEN {"mqtt"} ELSE {})

\* C12 as claimed: after the requested stop the buzzer is silent, the LED
\* is off, the status timer is cancelled and the MQTT session is closed,
\* but for an action that itself failed (each failure is logged); nothing
\* is raised; and the timer callback publishes no status after shutdown.
C12_AsClaimed ==
    /\ [](last = "cleanup" =>
            /\ Cardinality(CleanupUndone) <= Len(Logs(out))
            /\ pc = "exited" /\ exit_status = 0)
    /\ [][pc = "exited" => last' # "timer_callback"]_vars

-----------------------------------------------------------------------------
(* C13  The default chime pattern                                          *)

\* The Default Chime Pattern as the specification lists it.
DefaultPattern ==
    <<Tone(262, 300), Tone(330, 300), Tone(392, 300), Tone(523, 500)>>

\* C13: a ring request of the schema handled in a mode other than
\* DoNotDisturb, with notes empty or absent, sounds exactly C4/300,
\* E4/300, G4/300, C5/500 in this order; and whatever its notes, the last
\* duty play_chime writes is 0 and the buzzer is silent when it returns.
C13_DefaultPattern ==
    [][(RingHandled /\ current_mode # DO_NOT_DISTURB) =>
         LET notes == out'[1].payload.notes
             w == DutyWrites(play_chime(notes))
         IN  /\ (notes.kind = "absent" \/ notes = NotesList(<<>>))
                  => Tones(out') = DefaultPattern
             /\ w # <<>> /\ w[Len(w)] = 0
             /\ buzzer_duty' = 0
    ]_vars

\* An empty notes list has been chimed with the default pattern.
C13_Witness ==
    /\ last = "check_msg"
    /\ RingDelivered(out)
    /\ out[1].payload.notes = NotesList(<<>>)
    /\ current_mode = CHILL_GRINDING
    /\ Tones(out) = DefaultPattern
    /\ buzzer_duty = 0

-----------------------------------------------------------------------------
(* C14  A second request overwrites the pending one                        *)

\* A ring request of the schema is handled in ChillGrinding while a
\* response for another chime_id is pending.
SecondRequest ==
    /\ RingHandled
    /\ current_mode = CHILL_GRINDING
    /\ pending_chime_id # ""
    /\ out'[1].payload.chime_id # pending_chime_id

\* The second request takes the place of the pending one, with a deadline
\* 10000 ms after it is handled and no response at that moment; while it
\* is pending no response is published for the request it replaced, and a
\* response that is published is the only one and clears the pending
\* state.
C14_Overwrites ==
    /\ [][SecondRequest =>
            /\ pending_chime_id' = out'[1].payload.chime_id
            /\ replaced_chime_id' = pending_chime_id
            /\ chime_response_deadline' = now' + 10000
            /\ Responses(out') = <<>>
        ]_vars
    /\ [][replaced_chime_id # "" =>
            /\ Len(Responses(out')) <= 1
            /\ Responses(out') # <<>> =>
                 /\ Responses(out')[1].original_chime_id = pending_chime_id
                 /\ Responses(out')[1].original_chime_id # replaced_chime_id
                 /\ pending_chime_id' = ""
        ]_vars

\* The request that replaced another is answered by the deadline poll once
\* more than 10000 ms (and less than half the counter's period) have passed
\* since it was handled.
C14_Answered ==
    [][(PolledPastDeadline /\ replaced_chime_id # "")
        => Responses(out') = <<ResponseMsg("Positive", pending_chime_id)>>]_vars

\* C14 as claimed: a second request Y handled in ChillGrinding while X is
\* pending replaces it, the deadline runs 10000 ms from the second
\* request, and afterwards exactly one response is published, for Y, and
\* none for X.
C14_AsClaimed == C14_Overwrites /\ C14_Answered

-----------------------------------------------------------------------------
(* C15  Order of the steps of one iteration                                *)

\* The last step delivered a ring request of the schema that is now pending.
JustRecorded ==
    /\ last = "check_msg"
    /\ RingDelivered(out)
    /\ WellFormed(out[1].payload)
    /\ pending_chime_id = out[1].payload.chime_id

\* C15: the steps of the loop follow one another in the order message
\* intake, button poll, LED poll, deadline check, and back to message
\* intake, each handler running at its own place only; so a press
\* recognized by the button poll that follows the intake of a request
\* recorded as pending answers that request and leaves the mode alone.
C15_LoopOrder ==
    /\ [][(pc \in LoopPcs /\ pc' \in LoopPcs /\ pc' # pc) =>
            \/ pc = "check_msg" /\ pc' = "button" /\ last' = "check_msg"
            \/ pc = "button" /\ pc' = "led" /\ last' = "handle_button"
            \/ pc = "led" /\ pc' = "pending" /\ last' = "handle_status_led"
            \/ pc = "pending" /\ pc' = "check_msg"
                 /\ last' = "handle_pending_responses"
        ]_vars
    /\ [][/\ last' = "check_msg" => pc = "check_msg"
          /\ last' = "handle_button" => pc = "button"
          /\ last' = "handle_status_led" => pc = "led"
          /\ last' = "handle_pending_responses" => pc = "pending"
          /\ last' = "run" => pc' = "check_msg"
        ]_vars
    /\ [][(JustRecorded /\ PressRecognized) =>
            /\ Responses(out') =
                 <<ResponseMsg("Positive", out[1].payload.chime_id)>>
            /\ current_mode' = current_mode
            /\ pending_chime_id' = ""
        ]_vars

\* Message intake has just recorded the request for X as pending and the
\* button poll, which can recognize a press, comes next.
C15_Witness ==
    /\ pc = "button"
    /\ JustRecorded
    /\ pending_chime_id = "X"
    /\ ~button_pressed
    /\ \E t \in TimePoints : Debounced(t, last_button_press)

-----------------------------------------------------------------------------
(* C16  The status LED                                                     *)

LedPoll == pc = "led" /\ last' = "handle_status_led"

\* The LED poll reads the counter more than the mode's blink interval, and
\* less than half the counter's period, after the last toggle.
IntervalElapsed ==
    /\ LedPoll
    /\ current_mode \in {DO_NOT_DISTURB, AVAILABLE, CHILL_GRINDING}
    /\ Elapsed(now', last_led_toggle) > BlinkInterval(current_mode)
    /\ Elapsed(now', last_led_toggle) < TicksPeriod \div 2

\* C16 as claimed: in the three blinking modes an LED poll at which the
\* mode's interval has elapsed since the last toggle inverts the LED output
\* and restarts the interval, whatever modes came before; in Grinding the
\* poll drives the LED on and leaves led_state and last_led_toggle alone.
C16_AsClaimed ==
    /\ [][IntervalElapsed =>
            /\ status_led' = ~status_led
            /\ last_led_toggle' = now'
        ]_vars
    /\ [][(LedPoll /\ current_mode = GRINDING) =>
            /\ status_led'
            /\ UNCHANGED <<led_state, last_led_toggle>>
        ]_vars

-----------------------------------------------------------------------------
(* C17  The status timer's callback                                        *)

\* The publishes of the status timer's callback among the effects o.
TimerPublishes(o) == Select(o, "timer_status")

\* What the loop's own calls published among the effects o.
LoopPublishes(o) ==
    SelectSeq(o, LAMBDA e : e.ev \in {"response", "status"})

-----------------------------------------------------------------------------
(* C18  A pending response only in ChillGrinding                           *)

\* C18: whenever a response is pending the mode is ChillGrinding, and no
\* step taken while a response is pending leaves ChillGrinding.
C18_PendingInChill ==
    /\ [](pending_chime_id # "" => current_mode = CHILL_GRINDING)
    /\ [][pending_chime_id # "" => current_mode' = CHILL_GRINDING]_vars

\* A press was recognized while the response for X was pending: it
\* answered, and the mode is still ChillGrinding.
C18_Witness ==
    /\ last = "handle_button"
    /\ button_pressed
    /\ last_button_press = now
    /\ Responses(out) = <<ResponseMsg("Positive", "X")>>
    /\ current_mode = CHILL_GRINDING
    /\ retained_status = "ChillGrinding"

-----------------------------------------------------------------------------
(* C19  The retained status names the current mode                         *)

\* A publish among the effects o raised.
PublishFailed(o) ==
    \E i \in 1..Len(o) :
        o[i] \in {Log("Failed to publish status"), Log("Failed to send response"),
                  Log("Failed to publish chime info")}

\* The retained Status Message names the node's mode.
StatusCurrent == retained_status = mode_names[current_mode + 1]

\* C19: startup, when none of its publishes fails, leaves the retained
\* status naming Available, the initial mode; from then on every step of
\* the loop and every run of the timer callback in which no publish fails
\* keeps the retained status naming the current mode, a mode change
\* included; and a callback whose publish is accepted leaves the retained
\* status naming the current mode.  So at every iteration boundary of a run
\* without a failed publish the retained status names the current mode.
C19_RetainedStatus ==
    /\ [][(last' = "publish_chime_info" /\ ~PublishFailed(out')) =>
            (StatusCurrent' /\ current_mode' = AVAILABLE)]_vars
    /\ [][(pc \in LoopPcs \cup {"run"} /\ pc' \in LoopPcs /\ StatusCurrent
             /\ ~PublishFailed(out')) => StatusCurrent']_vars
    /\ [][(last' = "timer_callback" /\ ~PublishFailed(out')) => StatusCurrent']_vars
    /\ [][(current_mode' # current_mode /\ ~PublishFailed(out')) =>
            (StatusCurrent' /\ Select(out', "status") = <<StatusMsg(current_mode')>>)]_vars

\* An iteration ends in DoNotDisturb, reached over three mode changes, with
\* the retained status naming DoNotDisturb.
C19_Witness ==
    /\ pc = "check_msg"
    /\ last = "handle_pending_responses"
    /\ current_mode = DO_NOT_DISTURB
    /\ retained_status = "DoNotDisturb"

-----------------------------------------------------------------------------
(* C20  The deadline across the counter's wrap-around                      *)

\* The pending request was handled less than 10000 ms before the counter
\* wraps: the deadline, as a counter value, lies past the wrap point.
RecordedNearWrap == pending_chime_id # "" /\ RecordedAt + 10000 >= TicksPeriod

\* C20 as claimed: also for a pending response recorded within 10000 ms of
\* the wrap point, the deadline poll publishes the Positive response once
\* more than 10000 ms have passed since the request was handled, and no
\* deadline poll publishes it before 10000 ms have passed.
C20_AsClaimed ==
    /\ [][(PolledPastDeadline /\ RecordedNearWrap) =>
            /\ Responses(out') = <<ResponseMsg("Positive", pending_chime_id)>>
            /\ pending_chime_id' = ""
        ]_vars
    /\ [][(DeadlinePoll /\ Responses(out') # <<>>) =>
            Elapsed(now', RecordedAt) >= 10000]_vars

====
